---- MODULE Spec2Model ----
(***************************************************************************)
(* A model of the Sorted String Table of WillKirkmanM/sst:                 *)
(*   src/src/writer.rs  DataBlock, IndexEntry, SstWriter                   *)
(*   src/src/reader.rs  IndexEntryInfo, SstReader                          *)
(* The file is modelled byte for byte, so that the writer's encoding and   *)
(* the reader's decoding are two separate computations over the same       *)
(* bytes.                                                                  *)
(***************************************************************************)
EXTENDS Integers, Sequences, FiniteSets, TLC

(***************************************************************************)
(* Bounds of the model.                                                    *)
(***************************************************************************)
\* the number of add calls in one run
MaxAdds == 3
\* length of the one long value; with a 1-byte key the pair is charged
\* 8 + 1 + BigLen = 4095, with a 2-byte key 4096
BigLen == 4086
\* the number of add calls in one run in which writes can fail
MaxIoAdds == 1
\* the number of add calls that build the table several readers share
MaxSharedAdds == 2
\* only files of at most this many bytes are tampered with
MaxTamperLen == 64
\* decoded integers from here on are all represented by Huge itself: every
\* buffer and file of the model is shorter, so they index, seek and size alike
Huge == 16777216

(***************************************************************************)
(* Inputs.                                                                 *)
(***************************************************************************)
BigVal == [i \in 1..BigLen |-> i % 251]
\* keys given to add; <<1>> is a proper prefix of <<1, 1>>
AddKeys == {<<1>>, <<1, 1>>, <<2>>}
\* values given to add: the empty one and the long one
AddVals == {<<>>, BigVal}
\* keys given to get: the added ones, one below, one between, one above
GetKeys == AddKeys \cup {<<0>>, <<1, 0>>, <<3>>}
\* bytes a tampered file position is overwritten with
TamperBytes == {0, 2, 255}

(***************************************************************************)
(* Integer encodings.  to_le_bytes of a u32 and of a u64; the values of    *)
(* the model are below 2^31, so the upper four bytes of a u64 are zero.    *)
(***************************************************************************)
U32LE(n) ==
    <<n % 256, (n \div 256) % 256, (n \div 65536) % 256, (n \div 16777216) % 256>>

U64LE(n) == U32LE(n) \o <<0, 0, 0, 0>>

\* u32::from_le_bytes / u64::from_le_bytes, saturated at Huge
FromLE(bytes) ==
    IF \E i \in 4..Len(bytes) : bytes[i] # 0
    THEN Huge
    ELSE bytes[1] + 256 * bytes[2] + 65536 * bytes[3]

\* 0xDEADBEEFCAFEBABEu64.to_le_bytes()
MagicBytes == <<190, 186, 254, 202, 239, 190, 173, 222>>

\* the order of byte slices: lexicographic, a proper prefix is smaller
SliceLess(a, b) ==
    \E i \in 1..(Len(a) + 1) :
        /\ i <= Len(b)
        /\ \A j \in 1..(i - 1) : a[j] = b[j]
        /\ (i = Len(a) + 1 \/ a[i] < b[i])

SliceGe(a, b) == ~SliceLess(a, b)

(***************************************************************************)
(* writer.rs: DataBlock                                                    *)
(***************************************************************************)
DataBlockNew == [entries |-> <<>>, size |-> 0]

DataBlockAdd(b, key, value) ==
    [entries |-> Append(b.entries, <<key, value>>),
     size |-> b.size + 8 + Len(key) + Len(value)]

\* entries.first() instead of entries.last()
DataBlockFirstKey(b) == b.entries[1][1]

DataBlockLastKey(b) == b.entries[Len(b.entries)][1]

RECURSIVE EntriesToBytes(_)
EntriesToBytes(es) ==
    IF es = <<>> THEN <<>>
    ELSE U32LE(Len(es[1][1])) \o es[1][1] \o U32LE(Len(es[1][2])) \o es[1][2]
         \o EntriesToBytes(Tail(es))

DataBlockToBytes(b) == U32LE(Len(b.entries)) \o EntriesToBytes(b.entries)

(***************************************************************************)
(* writer.rs: IndexEntry                                                   *)
(***************************************************************************)
\* block_size written before block_offset
IndexEntryToBytesSwapped(e) ==
    U32LE(Len(e.last_key)) \o e.last_key \o U64LE(e.block_size) \o U64LE(e.block_offset)

IndexEntryToBytes(e) ==
    U32LE(Len(e.last_key)) \o e.last_key \o U64LE(e.block_offset) \o U64LE(e.block_size)

RECURSIVE IndexEntriesToBytes(_)
IndexEntriesToBytes(ix) ==
    IF ix = <<>> THEN <<>>
    ELSE IndexEntryToBytes(ix[1]) \o IndexEntriesToBytes(Tail(ix))

(***************************************************************************)
(* State.                                                                  *)
(***************************************************************************)
VARIABLES
    wstate,         \* "Open", "Finished" (finish returned Ok), "Failed" (finish returned Err)
    current_block,  \* SstWriter.current_block
    index,          \* SstWriter.index
    offset,         \* SstWriter.offset
    file,           \* the bytes of the file at the path
    wres,           \* what the writer's last call returned: "Ok" or "Err"
    wfailed,        \* whether some call of the writer has returned Err
    added,          \* history: the pairs given to add, in call order
    sealed,         \* history: the entries of each block flush_block wrote, in seal order
    wlog,           \* history: the write_all calls, in call order
    tampered,       \* whether a byte of the file was overwritten from outside
    rstate,         \* "Closed", "Open", "Failed" (open returned Err), "Crashed" (panic)
    rres,           \* what open returned
    rindex,         \* SstReader.index
    rpos,           \* the position of the reader's file handle
    gkey,           \* the key of the reader's last get
    gout,           \* the outcome of the reader's last get
    readers,        \* concurrent readers: each one's step, index and last get
    handles         \* concurrent readers: the position of each open file handle

vars == <<wstate, current_block, index, offset, file, wres, wfailed, added, sealed,
          wlog, tampered, rstate, rres, rindex, rpos, gkey, gout, readers, handles>>

wvars == <<wstate, current_block, index, offset, wres, wfailed, added, sealed, wlog>>

rvars == <<rstate, rres, rindex, rpos, gkey, gout, readers, handles>>

\* SstWriter::new
block_size_threshold == 4096

\* the writer as one value: the fields of SstWriter, the file behind its
\* BufWriter, and the histories
Self ==
    [current_block |-> current_block, index |-> index, offset |-> offset,
     file |-> file, sealed |-> sealed, wlog |-> wlog]

(***************************************************************************)
(* I/O outcomes.  A write either succeeds or fails; a failed write_all has *)
(* written none of its bytes or part of them.                              *)
(***************************************************************************)
IoOk == [ok |-> TRUE, part |-> FALSE]

IoFailures == {[ok |-> FALSE, part |-> p] : p \in BOOLEAN}

IoAt(i, failAt, part) == IF failAt = i THEN [ok |-> FALSE, part |-> part] ELSE IoOk

\* self.writer.write_all(bytes)
WriteAll(w, bytes, kind, io) ==
    LET n == IF io.ok THEN Len(bytes) ELSE IF io.part THEN Len(bytes) \div 2 ELSE 0
    IN [w EXCEPT !.file = @ \o SubSeq(bytes, 1, n),
                 !.wlog = Append(@, [kind |-> kind, ok |-> io.ok])]

\* self.writer.flush(): a failed flush leaves a tail of the stream unwritten
WriterFlush(w, io) ==
    LET lost == IF io.ok THEN 0 ELSE IF io.part THEN Len(w.file) \div 2 ELSE 1
    IN [w EXCEPT !.file = SubSeq(@, 1, Len(@) - lost)]

(***************************************************************************)
(* writer.rs: SstWriter.  Each operator gives the writer after the call    *)
(* and whether the call returned Ok.                                       *)
(***************************************************************************)
\* flush_block without self.offset += block_size
flush_block_no_advance(w, io) ==
    IF w.current_block.entries = <<>>
    THEN [w |-> w, ok |-> TRUE]
    ELSE LET last_key == DataBlockLastKey(w.current_block)
             block_bytes == DataBlockToBytes(w.current_block)
             block_size == Len(block_bytes)
             w1 == WriteAll(w, block_bytes, "data", io)
         IN IF ~io.ok
            THEN [w |-> w1, ok |-> FALSE]
            ELSE [w |-> [w1 EXCEPT
                           !.index = Append(@, [last_key |-> last_key,
                                                block_offset |-> w.offset,
                                                block_size |-> block_size]),
                           !.sealed = Append(@, w.current_block.entries),
                           !.current_block = DataBlockNew],
                  ok |-> TRUE]

\* flush_block without the is_empty return, last_key().unwrap_or_default()
flush_block_always(w, io) ==
    LET last_key == IF w.current_block.entries = <<>> THEN <<>>
                    ELSE DataBlockLastKey(w.current_block)
        block_bytes == DataBlockToBytes(w.current_block)
        block_size == Len(block_bytes)
        w1 == WriteAll(w, block_bytes, "data", io)
    IN IF ~io.ok
       THEN [w |-> w1, ok |-> FALSE]
       ELSE [w |-> [w1 EXCEPT
                      !.index = Append(@, [last_key |-> last_key,
                                           block_offset |-> w.offset,
                                           block_size |-> block_size]),
                      !.offset = @ + block_size,
                      !.sealed = Append(@, w.current_block.entries),
                      !.current_block = DataBlockNew],
             ok |-> TRUE]

flush_block(w, io) ==
    IF w.current_block.entries = <<>>
    THEN [w |-> w, ok |-> TRUE]
    ELSE LET last_key == DataBlockLastKey(w.current_block)
             block_bytes == DataBlockToBytes(w.current_block)
             block_size == Len(block_bytes)
             w1 == WriteAll(w, block_bytes, "data", io)
         IN IF ~io.ok
            THEN [w |-> w1, ok |-> FALSE]
            ELSE [w |-> [w1 EXCEPT
                           !.index = Append(@, [last_key |-> last_key,
                                                block_offset |-> w.offset,
                                                block_size |-> block_size]),
                           !.offset = @ + block_size,
                           !.sealed = Append(@, w.current_block.entries),
                           !.current_block = DataBlockNew],
                  ok |-> TRUE]

\* add returns an error for a key below the last key added
add_sorted(w, key, value, io) ==
    LET w1 == [w EXCEPT !.current_block = DataBlockAdd(@, key, value)]
        below == IF w.current_block.entries # <<>>
                 THEN SliceLess(key, DataBlockLastKey(w.current_block))
                 ELSE w.index # <<>> /\ SliceLess(key, w.index[Len(w.index)].last_key)
    IN IF below THEN [w |-> w, ok |-> FALSE]
       ELSE IF w1.current_block.size >= block_size_threshold
       THEN flush_block(w1, io)
       ELSE [w |-> w1, ok |-> TRUE]

\* if self.current_block.size > self.block_size_threshold
add_above(w, key, value, io) ==
    LET w1 == [w EXCEPT !.current_block = DataBlockAdd(@, key, value)]
    IN IF w1.current_block.size > block_size_threshold
       THEN flush_block(w1, io)
       ELSE [w |-> w1, ok |-> TRUE]

add(w, key, value, io) ==
    LET w1 == [w EXCEPT !.current_block = DataBlockAdd(@, key, value)]
    IN IF w1.current_block.size >= block_size_threshold
       THEN flush_block(w1, io)
       ELSE [w |-> w1, ok |-> TRUE]

\* the index block without its num_entries field
IndexBlockBytesNoCount(ix) == IndexEntriesToBytes(ix)

\* the index block finish writes
IndexBlockBytes(ix) == U32LE(Len(ix)) \o IndexEntriesToBytes(ix)

\* self.offset read before the flush of the current block
IndexBlockOffsetBeforeFlush(before, after) == before.offset

\* let index_block_offset = self.offset, read after the flush
IndexBlockOffset(before, after) == after.offset

finish(w, failAt, part) ==
    LET f == flush_block(w, IoAt(1, failAt, part))
    IN IF ~f.ok THEN f ELSE
    LET index_block_offset == IndexBlockOffset(w, f.w)
        index_bytes == IndexBlockBytes(f.w.index)
        w2 == WriteAll(f.w, index_bytes, "index", IoAt(2, failAt, part))
    IN IF failAt = 2 THEN [w |-> w2, ok |-> FALSE] ELSE
    LET index_block_size == Len(index_bytes)
        w3 == WriteAll(w2, U64LE(index_block_offset), "footer_offset", IoAt(3, failAt, part))
    IN IF failAt = 3 THEN [w |-> w3, ok |-> FALSE] ELSE
    LET w4 == WriteAll(w3, U64LE(index_block_size), "footer_size", IoAt(4, failAt, part))
    IN IF failAt = 4 THEN [w |-> w4, ok |-> FALSE] ELSE
    LET w5 == WriteAll(w4, MagicBytes, "footer_magic", IoAt(5, failAt, part))
    IN IF failAt = 5 THEN [w |-> w5, ok |-> FALSE] ELSE
    [w |-> WriterFlush(w5, IoAt(6, failAt, part)), ok |-> failAt # 6]

(***************************************************************************)
(* Writer actions.                                                         *)
(***************************************************************************)
SetWriter(r) ==
    /\ current_block' = r.w.current_block
    /\ index' = r.w.index
    /\ offset' = r.w.offset
    /\ file' = r.w.file
    /\ sealed' = r.w.sealed
    /\ wlog' = r.w.wlog
    /\ wres' = IF r.ok THEN "Ok" ELSE "Err"
    /\ wfailed' = (wfailed \/ ~r.ok)

\* writer.add(key, value), every write succeeding
Add ==
    /\ wstate = "Open"
    /\ Len(added) < MaxAdds
    /\ \E key \in AddKeys, value \in AddVals :
          /\ SetWriter(add(Self, key, value, IoOk))
          /\ added' = Append(added, <<key, value>>)
    /\ UNCHANGED <<wstate, tampered, rvars>>

\* writer.finish(), every write succeeding; finish consumes the writer
Finish ==
    /\ wstate = "Open"
    /\ SetWriter(finish(Self, 0, FALSE))
    /\ wstate' = "Finished"
    /\ UNCHANGED <<added, tampered, rvars>>

\* writer.add(key, value) whose write_all, if it makes one, may fail
AddIo ==
    /\ wstate = "Open"
    /\ Len(added) < MaxIoAdds
    /\ \E key \in AddKeys, value \in AddVals, io \in {IoOk} \cup IoFailures :
          /\ SetWriter(add(Self, key, value, io))
          /\ added' = Append(added, <<key, value>>)
    /\ UNCHANGED <<wstate, tampered, rvars>>

\* writer.finish() whose failAt-th I/O call, if it makes that many, fails
FinishIo ==
    /\ wstate = "Open"
    /\ \E failAt \in 0..6, part \in BOOLEAN :
          LET r == finish(Self, failAt, part)
          IN /\ SetWriter(r)
             /\ wstate' = IF r.ok THEN "Finished" ELSE "Failed"
    /\ UNCHANGED <<added, tampered, rvars>>

(***************************************************************************)
(* reader.rs: file access.  seek(SeekFrom::Start(off)), vec![0; size],     *)
(* read_exact, on a handle whose position is pos.  An offset or a size     *)
(* that decodes to Huge stands for every larger value too: the seek fails  *)
(* for an offset above i64::MAX and succeeds below; the allocation aborts  *)
(* the process when the memory is not there and succeeds when it is.  Each *)
(* outcome is a possible one.  read_exact reads at the handle's position   *)
(* and leaves the position after the bytes it read.                        *)
(***************************************************************************)
\* vec![0; size] and read_exact on a handle at position p
ReadExact(f, p, size) ==
    (IF size = Huge
     THEN {[res |-> "Panic", buf |-> <<>>, reads |-> 0, pos |-> p]} ELSE {})
    \cup
    {IF size = 0 \/ p + size <= Len(f)
     THEN [res |-> "Ok", buf |-> SubSeq(f, p + 1, p + size), reads |-> 1,
           pos |-> p + size]
     ELSE [res |-> "IoError", buf |-> <<>>, reads |-> 1,
           pos |-> IF p < Len(f) THEN Len(f) ELSE p]}

\* seek(SeekFrom::Start(off)), then the allocation and the read
ReadAt(f, pos, off, size) ==
    (IF off = Huge
     THEN {[res |-> "IoError", buf |-> <<>>, reads |-> 0, pos |-> pos]} ELSE {})
    \cup ReadExact(f, off, size)

(***************************************************************************)
(* reader.rs: SstReader::parse_index.  An out-of-range slice panics.       *)
(***************************************************************************)
RECURSIVE ParseIndexEntries(_, _, _)
ParseIndexEntries(buf, n, acc) ==
    IF n = 0 THEN [res |-> "Ok", index |-> acc]
    ELSE IF Len(buf) < 4 THEN [res |-> "Panic", index |-> <<>>]
    ELSE LET key_len == FromLE(SubSeq(buf, 1, 4))
             buf1 == SubSeq(buf, 5, Len(buf))
         IN IF key_len > Len(buf1) THEN [res |-> "Panic", index |-> <<>>]
            ELSE LET last_key == SubSeq(buf1, 1, key_len)
                     buf2 == SubSeq(buf1, key_len + 1, Len(buf1))
                 IN IF Len(buf2) < 16 THEN [res |-> "Panic", index |-> <<>>]
                    ELSE ParseIndexEntries(
                             SubSeq(buf2, 17, Len(buf2)), n - 1,
                             Append(acc, [last_key |-> last_key,
                                          block_offset |-> FromLE(SubSeq(buf2, 1, 8)),
                                          block_size |-> FromLE(SubSeq(buf2, 9, 16))]))

parse_index(buf) ==
    IF Len(buf) < 4 THEN [res |-> "Panic", index |-> <<>>]
    ELSE ParseIndexEntries(SubSeq(buf, 5, Len(buf)), FromLE(SubSeq(buf, 1, 4)), <<>>)

(***************************************************************************)
(* reader.rs: SstReader::open.  The set of its possible outcomes.          *)
(***************************************************************************)
FooterLen == 24

\* if magic != 0xDEADBEEFCAFEBABE
MagicMismatch(footer_buf) == SubSeq(footer_buf, 17, 24) # MagicBytes

open(f) ==
    IF Len(f) < FooterLen
    THEN \* seek(SeekFrom::End(-24)) before the start of the file: EINVAL
         {[res |-> "IoError", index |-> <<>>, pos |-> 0]}
    ELSE LET footer_buf == SubSeq(f, Len(f) - FooterLen + 1, Len(f))
         IN IF MagicMismatch(footer_buf)
            THEN {[res |-> "InvalidData", index |-> <<>>, pos |-> Len(f)]}
            ELSE LET index_offset == FromLE(SubSeq(footer_buf, 1, 8))
                     index_size == FromLE(SubSeq(footer_buf, 9, 16))
                 IN {LET o == IF rd.res = "Ok" THEN parse_index(rd.buf)
                              ELSE [res |-> rd.res, index |-> <<>>]
                     IN [res |-> o.res, index |-> o.index, pos |-> rd.pos] :
                        rd \in ReadAt(f, Len(f), index_offset, index_size)}

(***************************************************************************)
(* reader.rs: SstReader::search_in_block                                   *)
(***************************************************************************)
\* search_key.starts_with(key) instead of key == search_key
KeyMatchesPrefix(key, search_key) ==
    Len(key) <= Len(search_key) /\ SubSeq(search_key, 1, Len(key)) = key

\* if key == search_key
KeyMatches(key, search_key) == key = search_key

\* the scan goes on after a match and returns the last one
RECURSIVE SearchEntriesLast(_, _, _)
SearchEntriesLast(buf, n, search_key) ==
    IF n = 0 THEN [res |-> "NotFound", val |-> <<>>]
    ELSE IF Len(buf) < 4 THEN [res |-> "Panic", val |-> <<>>]
    ELSE LET key_len == FromLE(SubSeq(buf, 1, 4))
             buf1 == SubSeq(buf, 5, Len(buf))
         IN IF key_len > Len(buf1) THEN [res |-> "Panic", val |-> <<>>]
            ELSE LET key == SubSeq(buf1, 1, key_len)
                     buf2 == SubSeq(buf1, key_len + 1, Len(buf1))
                 IN IF Len(buf2) < 4 THEN [res |-> "Panic", val |-> <<>>]
                    ELSE LET val_len == FromLE(SubSeq(buf2, 1, 4))
                             buf3 == SubSeq(buf2, 5, Len(buf2))
                         IN IF val_len > Len(buf3) THEN [res |-> "Panic", val |-> <<>>]
                            ELSE LET rest == SearchEntriesLast(
                                                 SubSeq(buf3, val_len + 1, Len(buf3)),
                                                 n - 1, search_key)
                                 IN IF rest.res = "NotFound" /\ key = search_key
                                    THEN [res |-> "Some", val |-> SubSeq(buf3, 1, val_len)]
                                    ELSE rest

RECURSIVE SearchEntries(_, _, _)
SearchEntries(buf, n, search_key) ==
    IF n = 0 THEN [res |-> "NotFound", val |-> <<>>]
    ELSE IF Len(buf) < 4 THEN [res |-> "Panic", val |-> <<>>]
    ELSE LET key_len == FromLE(SubSeq(buf, 1, 4))
             buf1 == SubSeq(buf, 5, Len(buf))
         IN IF key_len > Len(buf1) THEN [res |-> "Panic", val |-> <<>>]
            ELSE LET key == SubSeq(buf1, 1, key_len)
                     buf2 == SubSeq(buf1, key_len + 1, Len(buf1))
                 IN IF Len(buf2) < 4 THEN [res |-> "Panic", val |-> <<>>]
                    ELSE LET val_len == FromLE(SubSeq(buf2, 1, 4))
                             buf3 == SubSeq(buf2, 5, Len(buf2))
                         IN IF val_len > Len(buf3) THEN [res |-> "Panic", val |-> <<>>]
                            ELSE IF KeyMatches(key, search_key)
                            THEN [res |-> "Some", val |-> SubSeq(buf3, 1, val_len)]
                            ELSE SearchEntries(SubSeq(buf3, val_len + 1, Len(buf3)),
                                               n - 1, search_key)

search_in_block(buf, search_key) ==
    IF Len(buf) < 4 THEN [res |-> "Panic", val |-> <<>>]
    ELSE SearchEntries(SubSeq(buf, 5, Len(buf)), FromLE(SubSeq(buf, 1, 4)), search_key)

(***************************************************************************)
(* reader.rs: SstReader::get.  The set of its possible outcomes.           *)
(***************************************************************************)
\* last_key > key instead of last_key >= key
QualifiesStrict(entry, key) == SliceLess(key, entry.last_key)

\* |entry| &entry.last_key[..] >= key
Qualifies(entry, key) == SliceGe(entry.last_key, key)

\* falls back to the last block when no entry qualifies
CandidateOrLast(ix, key) ==
    IF \E i \in 1..Len(ix) : SliceGe(ix[i].last_key, key)
    THEN CHOOSE i \in 1..Len(ix) :
            /\ SliceGe(ix[i].last_key, key)
            /\ \A j \in 1..(i - 1) : ~SliceGe(ix[j].last_key, key)
    ELSE Len(ix)

\* self.index.iter().rev().find(..): the last qualifying entry instead of the first
FindBlockLast(ix, key) ==
    IF \E i \in 1..Len(ix) : SliceGe(ix[i].last_key, key)
    THEN CHOOSE i \in 1..Len(ix) :
            /\ SliceGe(ix[i].last_key, key)
            /\ \A j \in (i + 1)..Len(ix) : ~SliceGe(ix[j].last_key, key)
    ELSE 0

\* self.index.iter().find(..): the position of the first qualifying entry, 0 for none
FindBlock(ix, key) ==
    IF \E i \in 1..Len(ix) : Qualifies(ix[i], key)
    THEN CHOOSE i \in 1..Len(ix) :
            /\ Qualifies(ix[i], key)
            /\ \A j \in 1..(i - 1) : ~Qualifies(ix[j], key)
    ELSE 0

\* the block get reads: the one find returns, 0 for none
Candidate(ix, key) == FindBlock(ix, key)

\* SeekFrom::Current(entry.block_offset as i64)
BlockSeekFromCurrent(pos, entry) == pos + entry.block_offset

\* SeekFrom::Start(entry.block_offset): the offset get seeks to
BlockSeek(pos, entry) == entry.block_offset

\* the outcomes of get on a handle at pos, each with the position it leaves
get(ix, f, pos, key) ==
    LET b == Candidate(ix, key)
    IN IF b = 0
       THEN {[out |-> [res |-> "NotFound", val |-> <<>>, block |-> 0, seeks |-> 0,
                       reads |-> 0],
              pos |-> pos]}
       ELSE {LET s == IF rd.res = "Ok" THEN search_in_block(rd.buf, key)
                      ELSE [res |-> rd.res, val |-> <<>>]
             IN [out |-> [res |-> s.res, val |-> s.val, block |-> b, seeks |-> 1,
                          reads |-> rd.reads],
                 pos |-> rd.pos] :
                rd \in ReadAt(f, pos, BlockSeek(pos, ix[b]), ix[b].block_size)}

(***************************************************************************)
(* Reader actions and the environment.                                     *)
(***************************************************************************)
NoGet == [res |-> "-", val |-> <<>>, block |-> 0, seeks |-> 0, reads |-> 0]

\* the writer is gone: finish consumed it
WriterGone == wstate \in {"Finished", "Failed"}

\* SstReader::open(path)
Open ==
    /\ WriterGone
    /\ rstate = "Closed"
    /\ \E o \in open(file) :
          /\ rres' = o.res
          /\ rindex' = o.index
          /\ rpos' = o.pos
          /\ rstate' = CASE o.res = "Ok" -> "Open"
                         [] o.res = "Panic" -> "Crashed"
                         [] OTHER -> "Failed"
    /\ UNCHANGED <<wvars, file, tampered, gkey, gout, readers, handles>>

\* reader.get(key)
Get ==
    /\ rstate = "Open"
    /\ \E key \in GetKeys :
       \E g \in get(rindex, file, rpos, key) :
          /\ gkey' = key
          /\ gout' = g.out
          /\ rpos' = g.pos
          /\ rstate' = IF g.out.res = "Panic" THEN "Crashed" ELSE "Open"
    /\ UNCHANGED <<wvars, file, tampered, rres, rindex, readers, handles>>

\* something other than the writer overwrites one byte of the file
Tamper ==
    /\ WriterGone
    /\ rstate = "Closed"
    /\ ~tampered
    /\ Len(file) <= MaxTamperLen
    /\ \E pos \in 1..Len(file), b \in TamperBytes :
          /\ file[pos] # b
          /\ file' = [file EXCEPT ![pos] = b]
    /\ tampered' = TRUE
    /\ UNCHANGED <<wvars, rvars>>

\* something other than the writer cuts the file short
Truncate ==
    /\ WriterGone
    /\ rstate = "Closed"
    /\ ~tampered
    /\ Len(file) <= MaxTamperLen
    /\ \E n \in 0..(Len(file) - 1) : file' = SubSeq(file, 1, n)
    /\ tampered' = TRUE
    /\ UNCHANGED <<wvars, rvars>>

(***************************************************************************)
(* Several readers of one finished file.  Each SstReader::open makes its   *)
(* own File::open, so each reader has a handle and a position of its own;  *)
(* a get is a seek step and then a read step, and the steps of different   *)
(* readers interleave.                                                     *)
(***************************************************************************)
Readers == {"r1", "r2"}

ConcKeys == {<<1, 1>>, <<2>>, <<3>>}

\* one handle for every reader, as after File::try_clone
HandleShared(r) == "r1"

\* let mut file = File::open(path)?: the handle of reader r is its own
Handle(r) == r

ClosedReader == [pc |-> "closed", index |-> <<>>, key |-> <<>>, block |-> 0, out |-> NoGet]

\* writer.add(key, value) for the table the concurrent readers share
AddShared ==
    /\ wstate = "Open"
    /\ Len(added) < MaxSharedAdds
    /\ \E key \in AddKeys, value \in AddVals :
          /\ SetWriter(add(Self, key, value, IoOk))
          /\ added' = Append(added, <<key, value>>)
    /\ UNCHANGED <<wstate, tampered, rvars>>

\* SstReader::open(path) by reader r
OpenShared(r) ==
    /\ wstate = "Finished"
    /\ readers[r].pc = "closed"
    /\ \E o \in open(file) :
          /\ o.res = "Ok"
          /\ readers' = [readers EXCEPT ![r] = [@ EXCEPT !.pc = "idle", !.index = o.index]]
          /\ handles' = [handles EXCEPT ![Handle(r)] = o.pos]
    /\ UNCHANGED <<wvars, file, tampered, rstate, rres, rindex, rpos, gkey, gout>>

\* reader r's get(key) up to its seek; a get with no candidate block returns here
GetSeek(r) ==
    /\ readers[r].pc = "idle"
    /\ \E key \in ConcKeys :
          LET ix == readers[r].index
              b == Candidate(ix, key)
          IN IF b = 0
             THEN /\ readers' = [readers EXCEPT ![r] =
                         [@ EXCEPT !.key = key, !.block = 0,
                                   !.out = [res |-> "NotFound", val |-> <<>>, block |-> 0,
                                            seeks |-> 0, reads |-> 0]]]
                  /\ UNCHANGED handles
             ELSE /\ readers' = [readers EXCEPT ![r] =
                         [@ EXCEPT !.pc = "seeked", !.key = key, !.block = b,
                                   !.out = NoGet]]
                  /\ handles' = [handles EXCEPT ![Handle(r)] = BlockSeek(@, ix[b])]
    /\ UNCHANGED <<wvars, file, tampered, rstate, rres, rindex, rpos, gkey, gout>>

\* the rest of reader r's get: the read at its handle's position and the scan
GetRead(r) ==
    /\ readers[r].pc = "seeked"
    /\ LET ix == readers[r].index
           b == readers[r].block
       IN \E rd \in ReadExact(file, handles[Handle(r)], ix[b].block_size) :
             LET s == IF rd.res = "Ok" THEN search_in_block(rd.buf, readers[r].key)
                      ELSE [res |-> rd.res, val |-> <<>>]
             IN /\ readers' = [readers EXCEPT ![r] =
                       [@ EXCEPT !.pc = IF s.res = "Panic" THEN "crashed" ELSE "idle",
                                 !.out = [res |-> s.res, val |-> s.val, block |-> b,
                                          seeks |-> 1, reads |-> rd.reads]]]
                /\ handles' = [handles EXCEPT ![Handle(r)] = rd.pos]
    /\ UNCHANGED <<wvars, file, tampered, rstate, rres, rindex, rpos, gkey, gout>>

Init ==
    /\ wstate = "Open"
    /\ current_block = DataBlockNew
    /\ index = <<>>
    /\ offset = 0
    /\ file = <<>>
    /\ wres = "Ok"
    /\ wfailed = FALSE
    /\ added = <<>>
    /\ sealed = <<>>
    /\ wlog = <<>>
    /\ tampered = FALSE
    /\ rstate = "Closed"
    /\ rres = "-"
    /\ rindex = <<>>
    /\ rpos = 0
    /\ gkey = <<>>
    /\ gout = NoGet
    /\ readers = [r \in Readers |-> ClosedReader]
    /\ handles = [r \in Readers |-> 0]

\* the writer and the reader when every write succeeds
Next == Add \/ Finish \/ Tamper \/ Truncate \/ Open \/ Get

Spec == Init /\ [][Next]_vars

\* the writer when writes can fail
NextIo == AddIo \/ FinishIo

SpecIo == Init /\ [][NextIo]_vars

\* one writer, then several readers of its file
NextShared ==
    \/ AddShared
    \/ Finish
    \/ \E r \in Readers : OpenShared(r) \/ GetSeek(r) \/ GetRead(r)

SpecShared == Init /\ [][NextShared]_vars

(***************************************************************************)
(* Vocabulary of the properties.                                           *)
(***************************************************************************)
\* the keys of the pairs es are strictly increasing
StrictlyIncreasing(es) ==
    \A i \in 1..(Len(es) - 1) : SliceLess(es[i][1], es[i + 1][1])

\* the keys of the pairs es are non-decreasing
NonDecreasing(es) ==
    \A i \in 1..(Len(es) - 1) : SliceGe(es[i + 1][1], es[i][1])

WasAdded(k) == \E i \in 1..Len(added) : added[i][1] = k

\* the value of the first pair added with key k
FirstValueOf(k) ==
    added[CHOOSE i \in 1..Len(added) :
             /\ added[i][1] = k
             /\ \A j \in 1..(i - 1) : added[j][1] # k][2]

\* finish returned Ok and nothing but the writer touched the file
Written == wstate = "Finished" /\ ~tampered

\* the reader has answered a get
Answered == gout.res # "-"

\* the bytes of the file the index entry e describes
BlockBytes(e) == SubSeq(file, e.block_offset + 1, e.block_offset + e.block_size)

\* the serialized blocks, one after the other
RECURSIVE BlocksToBytes(_)
BlocksToBytes(blocks) ==
    IF blocks = <<>> THEN <<>>
    ELSE DataBlockToBytes([entries |-> blocks[1]]) \o BlocksToBytes(Tail(blocks))

\* the sum of the recorded block sizes
RECURSIVE SumBlockSizes(_)
SumBlockSizes(ix) ==
    IF ix = <<>> THEN 0 ELSE ix[1].block_size + SumBlockSizes(Tail(ix))

\* the kinds of the write_all calls so far
Kinds == [i \in 1..Len(wlog) |-> wlog[i].kind]

\* the pairs of the blocks, one after the other
RECURSIVE Flatten(_)
Flatten(blocks) ==
    IF blocks = <<>> THEN <<>> ELSE blocks[1] \o Flatten(Tail(blocks))

(***************************************************************************)
(* C1  Round trip.  For keys added in strictly increasing order and then   *)
(* finish, open succeeds, get of a written key returns exactly the value   *)
(* added for it, and get of a key never added returns not found.           *)
(***************************************************************************)
C1_RoundTrip ==
    (Written /\ StrictlyIncreasing(added) /\ rstate # "Closed") =>
        /\ rstate = "Open"
        /\ rres = "Ok"
        /\ Answered =>
              IF WasAdded(gkey)
              THEN gout.res = "Some" /\ gout.val = FirstValueOf(gkey)
              ELSE gout.res = "NotFound"

\* three keys in two blocks were written and the largest was looked up
C1_Witness ==
    /\ Written /\ StrictlyIncreasing(added) /\ rstate = "Open"
    /\ Len(added) = 3 /\ Len(index) = 2
    /\ gkey = added[3][1]
    /\ gout.res = "Some" /\ gout.val = added[3][2]

(***************************************************************************)
(* C2  Block split.  When sorted distinct input makes two or more blocks,  *)
(* get of the last key of block i selects and reads block i and returns    *)
(* that key's value, and get of the first key of block i + 1 selects       *)
(* block i + 1 and returns its value.                                      *)
(***************************************************************************)
C2_BlockSplit ==
    (Written /\ StrictlyIncreasing(added) /\ Len(index) >= 2
        /\ rstate = "Open" /\ Answered) =>
        \A i \in 1..Len(index) :
            /\ gkey = index[i].last_key =>
                  /\ gout.block = i /\ gout.reads = 1
                  /\ BlockBytes(rindex[i]) = DataBlockToBytes([entries |-> sealed[i]])
                  /\ gout.res = "Some"
                  /\ gout.val = sealed[i][Len(sealed[i])][2]
            /\ (i < Len(index) /\ gkey = sealed[i + 1][1][1]) =>
                  /\ gout.block = i + 1 /\ gout.reads = 1
                  /\ gout.res = "Some"
                  /\ gout.val = sealed[i + 1][1][2]

\* the last key of a two-pair first block was looked up and found there
C2_Witness ==
    /\ Written /\ StrictlyIncreasing(added) /\ Len(index) = 2
    /\ Len(sealed[1]) = 2
    /\ rstate = "Open"
    /\ gkey = index[1].last_key
    /\ gout.block = 1 /\ gout.res = "Some"

(***************************************************************************)
(* C3  Key beyond range.  For a table written from sorted input, get of a  *)
(* key greater than every index entry's last_key (hence greater than every *)
(* written key) returns not found without a seek or a read.                *)
(***************************************************************************)
C3_BeyondRange ==
    (Written /\ NonDecreasing(added) /\ rstate = "Open" /\ Answered
        /\ \A i \in 1..Len(index) : SliceLess(index[i].last_key, gkey)) =>
        /\ \A i \in 1..Len(added) : SliceLess(added[i][1], gkey)
        /\ gout.res = "NotFound"
        /\ gout.seeks = 0 /\ gout.reads = 0

\* a key above the last key of a two-block table was looked up
C3_Witness ==
    /\ Written /\ NonDecreasing(added) /\ rstate = "Open"
    /\ Len(index) = 2
    /\ gkey = <<3>>
    /\ gout.res = "NotFound" /\ gout.reads = 0

(***************************************************************************)
(* C4  Format rejection.  open of a file whose last 24 bytes do not end    *)
(* with the magic, or which is shorter than the 24-byte footer, fails      *)
(* with InvalidData and yields no reader.                                  *)
(***************************************************************************)
C4_FormatRejection ==
    (rstate # "Closed"
        /\ (Len(file) < FooterLen
            \/ SubSeq(file, Len(file) - 7, Len(file)) # MagicBytes)) =>
        rstate = "Failed" /\ rres = "InvalidData"

(***************************************************************************)
(* C5  Truncated or malformed input.  When the bytes of the index block or *)
(* of a data block are shorter than their length fields require, open and  *)
(* get end in an error value: they never panic or abort.                   *)
(***************************************************************************)
C5_MalformedIsAnError ==
    /\ rstate # "Crashed"
    /\ rres \in {"-", "Ok", "InvalidData", "IoError"}
    /\ gout.res \in {"-", "Some", "NotFound", "InvalidData", "IoError"}

(***************************************************************************)
(* C6  Empty table.  finish with no add writes no data block, a 4-byte     *)
(* index block holding num_entries = 0 and the footer (0, 4, magic): 28    *)
(* bytes; open succeeds with an empty index and every get returns not      *)
(* found.                                                                  *)
(***************************************************************************)
C6_EmptyTable ==
    (Written /\ added = <<>>) =>
        /\ sealed = <<>> /\ index = <<>>
        /\ Len(file) = 28
        /\ file = <<0, 0, 0, 0,
                    0, 0, 0, 0, 0, 0, 0, 0,
                    4, 0, 0, 0, 0, 0, 0, 0,
                    190, 186, 254, 202, 239, 190, 173, 222>>
        /\ rstate # "Closed" => (rstate = "Open" /\ rres = "Ok" /\ rindex = <<>>)
        /\ Answered => (gout.res = "NotFound" /\ gout.reads = 0)

\* the empty table was opened and asked for a key
C6_Witness ==
    /\ Written /\ added = <<>>
    /\ rstate = "Open" /\ Answered /\ gkey = <<1>>

C8_IndexRoundTrip ==
    (Written /\ rstate # "Closed") =>
        /\ rstate = "Open"
        /\ rindex = index

\* a table of three data blocks was opened
C8_Witness == Written /\ rstate = "Open" /\ Len(index) = 3 /\ Len(rindex) = 3

(***************************************************************************)
(* C9  Index entries.  In every writer state each index entry's last_key   *)
(* is the last key appended to the block it describes; when the keys were  *)
(* added in non-decreasing order, last_key is >= every key of its block    *)
(* and the last_key values are non-decreasing from entry to entry.         *)
(***************************************************************************)
C9_IndexEntries ==
    /\ Len(index) = Len(sealed)
    /\ \A i \in 1..Len(index) :
          /\ sealed[i] # <<>>
          /\ index[i].last_key = sealed[i][Len(sealed[i])][1]
    /\ NonDecreasing(added) =>
          /\ \A i \in 1..Len(index) : \A j \in 1..Len(sealed[i]) :
                SliceGe(index[i].last_key, sealed[i][j][1])
          /\ \A i \in 1..(Len(index) - 1) :
                SliceGe(index[i + 1].last_key, index[i].last_key)

\* a two-pair block with two different keys was sealed, and one more after it
C9_Witness ==
    /\ NonDecreasing(added)
    /\ Len(index) = 2
    /\ Len(sealed[1]) = 2
    /\ sealed[1][1][1] # sealed[1][2][1]

(***************************************************************************)
(* C10  Writer lifecycle and write order.  The writer goes Open, add*,     *)
(* Finished and no add follows finish; all data blocks are written before  *)
(* the index block, the index block before the footer, each of the two     *)
(* once; finish seals the non-empty current block before it computes the   *)
(* index offset.                                                           *)
(***************************************************************************)
\* C10, the states: what was written so far, in which order
C10_Order ==
    /\ wstate \in {"Open", "Finished"}
    /\ wstate = "Open" =>
          /\ Kinds = [i \in 1..Len(sealed) |-> "data"]
          /\ Flatten(sealed) \o current_block.entries = added
    /\ wstate = "Finished" =>
          /\ Kinds = [i \in 1..Len(sealed) |-> "data"]
                     \o <<"index", "footer_offset", "footer_size", "footer_magic">>
          /\ current_block.entries = <<>>
          /\ Flatten(sealed) = added
          /\ ~tampered =>
                FromLE(SubSeq(file, Len(file) - FooterLen + 1, Len(file) - FooterLen + 8))
                    = Len(BlocksToBytes(sealed))

\* C10, the steps: only Open to Finished, and nothing of the writer moves after it
C10_Step ==
    /\ wstate' # wstate => (wstate = "Open" /\ wstate' = "Finished")
    /\ wstate = "Finished" =>
          UNCHANGED <<added, current_block, index, offset, sealed, wlog>>

\* C10: the writer goes Open, add*, Finished; data blocks, then the index block
\* once, then the footer once; the index offset counts the block finish sealed
C10_Lifecycle == [](C10_Order) /\ [][C10_Step]_vars

\* finish sealed a second, not yet full block and then wrote index and footer
C10_Witness ==
    /\ wstate = "Finished"
    /\ Len(sealed) = 2
    /\ Len(sealed[2]) = 1 /\ sealed[2][1][2] = <<>>
    /\ Len(wlog) = 6


(***************************************************************************)
(* C11  Get is stateless.  Every get makes at most one data-block read,    *)
(* exactly one when some index entry has last_key >= key and none          *)
(* otherwise; it leaves the reader's index and the file unchanged; and its *)
(* result depends only on the file and the key, whatever gets came before: *)
(* it is the result the same get has on a handle at any other position.    *)
(***************************************************************************)
\* the outcomes get(k) has on this reader were its handle at position p
GetOutcomes(p, k) == {g.out : g \in get(rindex, file, p, k)}

C11_Pure ==
    (rstate \in {"Open", "Crashed"} /\ Answered) =>
        /\ gout.reads <= 1
        /\ gout \in GetOutcomes(0, gkey)
        /\ gout \in GetOutcomes(Len(file), gkey)
        /\ Written =>
              /\ GetOutcomes(0, gkey) = {gout}
              /\ gout.reads = IF \E i \in 1..Len(rindex) :
                                     SliceGe(rindex[i].last_key, gkey)
                              THEN 1 ELSE 0

C11_Frame == rstate = "Open" => (rindex' = rindex /\ file' = file)

C11_GetIsStateless == [](C11_Pure) /\ [][C11_Frame]_vars

\* a get that read the second block follows a get that read the first
C11_Witness ==
    /\ Written /\ rstate = "Open" /\ Len(rindex) = 2
    /\ gout.block = 2 /\ gout.reads = 1 /\ gout.res = "Some"
    /\ rpos = rindex[2].block_offset + rindex[2].block_size

(***************************************************************************)
(* C12  Concurrent readers.  With several readers open on the same         *)
(* finished file, each with its own handle and position, and the seek and  *)
(* read steps of their gets interleaved in any order, every get returns    *)
(* the result it returns when run alone, and no step changes the file.     *)
(***************************************************************************)
\* the outcomes of reader r's last get had it run alone
Alone(r) == {g.out : g \in get(readers[r].index, file, 0, readers[r].key)}

C12_SameAsAlone ==
    \A r \in Readers :
        readers[r].out.res # "-" => Alone(r) = {readers[r].out}

C12_FileKept == wstate = "Finished" => file' = file

C12_ConcurrentReaders == [](C12_SameAsAlone) /\ [][C12_FileKept]_vars

\* r1 is between the seek and the read of a get in the first block, r2 has
\* read the second block, and r1 had an answer from the first block before
C12_Witness ==
    /\ readers["r1"].pc = "seeked" /\ readers["r1"].block = 1
    /\ handles["r1"] = 0
    /\ readers["r2"].pc = "idle"
    /\ readers["r2"].out.res = "Some" /\ readers["r2"].out.block = 2
    /\ handles["r2"] = Len(file) - FooterLen - Len(IndexBlockBytes(index))

(***************************************************************************)
(* C13  Candidate block.  As claimed: for keys added in non-decreasing     *)
(* order, duplicates permitted, the first index entry whose last_key >=    *)
(* key is the only block that contains key (C13_OnlyBlock).  What holds:   *)
(* no block before that entry contains key; a block after it contains key  *)
(* only when key is the entry's last key, added again after the block was  *)
(* sealed; and when the keys are strictly increasing the entry's block is  *)
(* the only one that contains key (C13_FirstBlock).                        *)
(***************************************************************************)
\* the i-th block written holds a pair with key k
Holds(i, k) == \E j \in 1..Len(sealed[i]) : sealed[i][j][1] = k

C13_OnlyBlock ==
    (wstate = "Finished" /\ NonDecreasing(added)) =>
        \A k \in GetKeys : \A i \in 1..Len(sealed) :
            Holds(i, k) => i = Candidate(index, k)

C13_FirstBlock ==
    (wstate = "Finished" /\ NonDecreasing(added)) =>
        \A k \in GetKeys :
            LET c == Candidate(index, k)
            IN /\ WasAdded(k) => (c # 0 /\ Holds(c, k))
               /\ \A i \in 1..Len(sealed) :
                     Holds(i, k) =>
                        /\ i >= c
                        /\ i > c => index[c].last_key = k
                        /\ StrictlyIncreasing(added) => i = c

\* the key that sealed the first block was added again and is in the second too
C13_Witness ==
    /\ wstate = "Finished" /\ NonDecreasing(added)
    /\ Len(sealed) = 2
    /\ \E k \in GetKeys :
          /\ Candidate(index, k) = 1
          /\ Holds(1, k) /\ Holds(2, k)

RECURSIVE Estimate(_)
Estimate(es) ==
    IF es = <<>> THEN 0
    ELSE 8 + Len(es[1][1]) + Len(es[1][2]) + Estimate(Tail(es))

C15_FlushThreshold ==
    /\ current_block.size = Estimate(current_block.entries)
    /\ (wstate = "Open" /\ wres = "Ok") => current_block.size < block_size_threshold
    /\ \A i \in 1..Len(sealed) :
          /\ Estimate(SubSeq(sealed[i], 1, Len(sealed[i]) - 1)) < block_size_threshold
          /\ (wstate = "Open" \/ i < Len(sealed)) =>
                Estimate(sealed[i]) >= block_size_threshold

\* an add sealed a block of two pairs and a third pair is pending
C15_Witness ==
    /\ wstate = "Open" /\ Len(sealed) = 1 /\ Len(sealed[1]) = 2
    /\ Estimate(sealed[1]) >= block_size_threshold
    /\ Len(current_block.entries) = 1
    /\ current_block.size < block_size_threshold

(***************************************************************************)
(* C16  Empty flush.  flush_block on an empty current block writes no      *)
(* bytes and leaves the index, the offset cursor and the current block as  *)
(* they were.  So every index entry describes a block of at least one      *)
(* pair, and a finish right after a flush on the threshold adds no index   *)
(* entry: it writes the index block and the footer only.                   *)
(***************************************************************************)
C16_NonEmptyBlocks ==
    /\ Len(index) = Len(sealed)
    /\ \A i \in 1..Len(sealed) :
          /\ sealed[i] # <<>>
          /\ ~tampered => FromLE(SubSeq(BlockBytes(index[i]), 1, 4)) >= 1

C16_FinishOnEmpty ==
    (wstate = "Open" /\ current_block.entries = <<>> /\ wstate' = "Finished") =>
        /\ index' = index
        /\ offset' = offset
        /\ current_block' = current_block
        /\ sealed' = sealed
        /\ Len(wlog') = Len(wlog) + 4
        /\ \A i \in (Len(wlog) + 1)..Len(wlog') : wlog'[i].kind # "data"
        /\ file' = file \o IndexBlockBytes(index) \o U64LE(offset)
                        \o U64LE(Len(IndexBlockBytes(index))) \o MagicBytes

C16_EmptyFlush == [](C16_NonEmptyBlocks) /\ [][C16_FinishOnEmpty]_vars

\* the only add sealed its block on the threshold and finish added no entry
C16_Witness ==
    /\ wstate = "Finished" /\ Len(added) = 1 /\ Len(index) = 1
    /\ Estimate(sealed[1]) >= block_size_threshold
    /\ Len(wlog) = 5 /\ wlog[2].kind = "index"

(***************************************************************************)
(* C17  Duplicate keys.  When a key is added more than once, the keys in   *)
(* non-decreasing order, whether its pairs share a block or lie on both    *)
(* sides of a block boundary, get of the key returns the value of the pair *)
(* the scan reaches first, which is the pair added first.                  *)
(***************************************************************************)
\* the number of pairs added with key k
Copies(k) == Cardinality({i \in 1..Len(added) : added[i][1] = k})

C17_FirstWriteWins ==
    (Written /\ NonDecreasing(added) /\ rstate \in {"Open", "Crashed"} /\ Answered
        /\ Copies(gkey) >= 2) =>
        /\ gout.res = "Some"
        /\ gout.val = FirstValueOf(gkey)
        /\ Holds(gout.block, gkey)
        /\ \A i \in 1..(gout.block - 1) : ~Holds(i, gkey)

\* one key added three times, twice in the first block and once in the second,
\* the first value unlike the other two
C17_Witness ==
    /\ Written /\ rstate = "Open" /\ Len(added) = 3 /\ Copies(gkey) = 3
    /\ Len(sealed) = 2 /\ Len(sealed[1]) = 2
    /\ added[1][2] # added[2][2] /\ added[1][2] # added[3][2]
    /\ gout.res = "Some" /\ gout.val = added[1][2] /\ gout.block = 1

(***************************************************************************)
(* C18  Lookup soundness.  Whatever the order of the keys added, when get  *)
(* of a key returns a value, a pair of that key and that value was added:  *)
(* a table of keys out of order can lose keys, but get never returns a     *)
(* value that was not written for the key asked.                           *)
(***************************************************************************)
C18_Sound ==
    (Written /\ Answered /\ gout.res = "Some") =>
        /\ \E i \in 1..Len(added) : added[i] = <<gkey, gout.val>>
        /\ \E j \in 1..Len(sealed[gout.block]) :
              sealed[gout.block][j] = <<gkey, gout.val>>

\* keys out of order, one key in both blocks with two values, get returned the first
C18_Witness ==
    /\ Written /\ ~NonDecreasing(added) /\ rstate = "Open"
    /\ Len(sealed) = 2 /\ Holds(1, gkey) /\ Holds(2, gkey)
    /\ gout.res = "Some" /\ gout.block = 1
    /\ \E i \in 1..Len(added) : added[i][1] = gkey /\ added[i][2] # gout.val

(***************************************************************************)
(* C19  Sort order is not enforced.  add accepts a key smaller than the    *)
(* one before it: add returns Ok and keeps the pair, and neither finish    *)
(* nor open reports an error.  There are such inputs for which get of a    *)
(* written key returns not found: the key lies in a block after a block    *)
(* whose last_key is already >= the key (C19_Witness).                     *)
(***************************************************************************)
C19_Unsorted ==
    ~NonDecreasing(added) =>
        /\ wres = "Ok" /\ ~wfailed
        /\ wstate \in {"Open", "Finished"}
        /\ Flatten(sealed) \o current_block.entries = added
        /\ (Written /\ rstate # "Closed") => (rstate = "Open" /\ rres = "Ok")

\* a written key is not found: its pair is in the second block and get read the first
C19_Witness ==
    /\ Written /\ ~NonDecreasing(added) /\ rstate = "Open"
    /\ WasAdded(gkey)
    /\ gout.res = "NotFound" /\ gout.block = 1
    /\ Len(sealed) >= 2 /\ Holds(2, gkey) /\ ~Holds(1, gkey)
    /\ SliceGe(index[1].last_key, gkey)

(***************************************************************************)
(* C20  Write failure during a flush.  When the write of a data block      *)
(* fails inside add or finish, the call returns the error at once, without *)
(* a retry; no index entry is appended and the offset cursor does not      *)
(* advance; the call writes no index block and no footer; and the writer   *)
(* keeps no partial result of the failed call: its current block, index    *)
(* and offset are as they were before the call.                            *)
(***************************************************************************)
\* this step is a call whose write of a data block failed
FlushFailed ==
    /\ Len(wlog') > Len(wlog)
    /\ wlog'[Len(wlog')] = [kind |-> "data", ok |-> FALSE]

C20_Step ==
    FlushFailed =>
        /\ wres' = "Err"
        /\ Len(wlog') = Len(wlog) + 1
        /\ index' = index
        /\ offset' = offset
        /\ current_block' = current_block

C20_FailedFlush == [][C20_Step]_vars

====
